---------------------------- MODULE Spec2Model ----------------------------
(***************************************************************************)
(* Checkpoint conversion of keras_nlp/src/utils/transformers:              *)
(*   convert_gpt2.py        load_gpt2_backbone, convert_backbone_config,   *)
(*                          convert_weights                                *)
(*   convert_pali_gemma.py  load_gemma_backbone                            *)
(* A conversion run is a state machine over the position of the running    *)
(* call (pc), the source config, the constructed backbone, the checkpoint  *)
(* store and the per-parameter assignment counts.  The hook functions are  *)
(* operators over arrays kept as a shape and row-major (C order) data.     *)
(***************************************************************************)
EXTENDS Integers, Sequences, FiniteSets, TLC

VARIABLES
    entry,                \* the function that was called
    load_weights,         \* its load_weights argument
    transformers_config,  \* the source config on disk / as loaded
    loaded_config,        \* transformers_config as returned by load_config
    keras_config,         \* GPT-2: result of convert_backbone_config
    backbone,             \* the constructed model (its constructor arguments)
    pc,                   \* position of the running call
    error,                \* exception surfaced to the caller, or NoError
    store,                \* checkpoint store: weight_map, key -> shard file
    store_open,           \* the store's index has been loaded / loader opened
    files_fetched,        \* shard files fetched with get_file
    store_reads,          \* number of tensors read from the store
    cleanups,             \* number of jax_memory_cleanup calls
    assigned,             \* declared parameter -> number of assignments
    next_entry,           \* index of the next port entry (1-based)
    hf_tensor,            \* one tensor: the source tensor under one key
    keras_shape,          \* one tensor: shape of the target parameter(s)
    hook_key,             \* one tensor: the key the tensor is stored under
    hooks,                \* one tensor: port entries reading that key, not yet run
    ported                \* one tensor: results of the hooks applied so far

runVars == <<entry, load_weights, transformers_config, loaded_config,
             keras_config, backbone, pc, error, store, store_open,
             files_fetched, store_reads, cleanups, assigned, next_entry>>
hookVars == <<hf_tensor, keras_shape, hook_key, hooks, ported>>
vars == <<runVars, hookVars>>

----------------------------------------------------------------------------
(* Bounds of the model *)

MaxLayers == 2      \* layer counts range over 0..MaxLayers
MaxMissing == 1     \* at most this many keys removed from a source config
MaxDim == 2         \* array axes in the hook checks have 1..MaxDim entries
MaxElems == 4       \* arrays in the hook checks have at most MaxElems entries

(* Program constants *)

QKV_SPLIT_1 == 768            \* convert_gpt2.py: hf_tensor[:, :768]
QKV_SPLIT_2 == 1536           \* convert_gpt2.py: hf_tensor[:, 768:1536]
DEFAULT_IMAGE_SIZE == 224     \* convert_pali_gemma.py: else 224
CONVERT_WEIGHTS_PARAMS == 2   \* def convert_weights(backbone, loader)
CONVERT_WEIGHTS_ARGS == 3     \* convert_weights(backbone, loader, transformers_config)

NoLayer == 0 - 1              \* a parameter or key outside the layer loops
End == 0 - 1                  \* an omitted slice bound, as in hf_tensor[1536:]
NoError == <<"NoError", "">>
None == [none |-> TRUE]

Range(seq) == {seq[i] : i \in 1..Len(seq)}
Min(a, b) == IF a < b THEN a ELSE b
Max(a, b) == IF a > b THEN a ELSE b

\* The outcome of an evaluation that raised exception e instead of a value.
Raised(e) == [raised |-> e]
IsRaised(x) == "raised" \in DOMAIN x

KeyError(k) == <<"KeyError", k>>
TypeError == <<"TypeError", "convert_weights">>
ValueError == <<"ValueError", "reshape">>
AttributeError == <<"AttributeError", "keras_variable">>

----------------------------------------------------------------------------
(* GPT-2 config translation *)

GPT2_CONFIG_KEYS ==
    <<"vocab_size", "n_layer", "n_head", "n_embd", "n_ctx", "resid_pdrop",
      "n_positions">>

\* The first key of `keys`, in order, that mapping c lacks; "" when none.
RECURSIVE FirstMissing(_, _)
FirstMissing(c, keys) ==
    IF keys = <<>> THEN ""
    ELSE IF Head(keys) \notin DOMAIN c THEN Head(keys)
    ELSE FirstMissing(c, Tail(keys))

convert_backbone_config_Swapped(c) ==
    LET missing == FirstMissing(c, GPT2_CONFIG_KEYS)
    IN  IF missing # "" THEN Raised(KeyError(missing))
        ELSE [vocabulary_size |-> c["vocab_size"],
              num_layers |-> c["n_layer"],
              num_heads |-> c["n_head"],
              hidden_dim |-> c["n_embd"],
              intermediate_dim |-> c["n_embd"] * 3,
              dropout |-> c["resid_pdrop"],
              max_sequence_length |-> c["n_positions"]]

convert_backbone_config_Default(c) ==
    LET missing == FirstMissing(c, <<"vocab_size", "n_layer", "n_head", "n_embd",
                                     "resid_pdrop", "n_positions">>)
    IN  IF missing # "" THEN Raised(KeyError(missing))
        ELSE [vocabulary_size |-> c["vocab_size"],
              num_layers |-> c["n_layer"],
              num_heads |-> c["n_head"],
              hidden_dim |-> c["n_embd"],
              intermediate_dim |->
                  (IF "n_ctx" \in DOMAIN c THEN c["n_ctx"] ELSE 1024) * 3,
              dropout |-> c["resid_pdrop"],
              max_sequence_length |-> c["n_positions"]]

\* convert_backbone_config(transformers_config): the dict display evaluates its
\* values in order; the first lookup of an absent key raises KeyError.
convert_backbone_config(c) ==
    LET missing == FirstMissing(c, GPT2_CONFIG_KEYS)
    IN  IF missing # "" THEN Raised(KeyError(missing))
        ELSE [vocabulary_size |-> c["vocab_size"],
              num_layers |-> c["n_layer"],
              num_heads |-> c["n_head"],
              hidden_dim |-> c["n_embd"],
              intermediate_dim |-> c["n_ctx"] * 3,
              dropout |-> c["resid_pdrop"],
              max_sequence_length |-> c["n_positions"]]

----------------------------------------------------------------------------
(* PaliGemma config translation (the constructor call of load_gemma_backbone) *)

GEMMA_TEXT_KEYS ==
    <<"num_hidden_layers", "num_attention_heads", "num_key_value_heads",
      "hidden_size", "intermediate_size", "num_image_tokens">>

GEMMA_VISION_KEYS ==
    <<"patch_size", "num_attention_heads", "hidden_size",
      "num_hidden_layers", "intermediate_size">>

\* The key whose lookup raises KeyError, in evaluation order; "" when none.
GemmaFirstMissing(c) ==
    IF "text_config" \notin DOMAIN c THEN "text_config"
    ELSE IF "vision_config" \notin DOMAIN c THEN "vision_config"
    ELSE IF "image_token_index" \notin DOMAIN c THEN "image_token_index"
    ELSE LET t == FirstMissing(c["text_config"], GEMMA_TEXT_KEYS)
         IN  IF t # "" THEN t
             ELSE FirstMissing(c["vision_config"], GEMMA_VISION_KEYS)

image_size_NoDefault(vision_config) ==
    IF "image_size" \in DOMAIN vision_config
    THEN vision_config["image_size"]
    ELSE 0

\* image_size=(vision_config["image_size"] if "image_size" in ... else 224)
image_size(vision_config) ==
    IF "image_size" \in DOMAIN vision_config
    THEN vision_config["image_size"]
    ELSE DEFAULT_IMAGE_SIZE

\* intermediate_dim=text_config["intermediate_size"] * 2
intermediate_dim(text_config) == text_config["intermediate_size"] * 2

\* The keyword arguments of cls(...), or the KeyError raised while evaluating
\* text_config, vision_config and the arguments, before cls is called.
GemmaBackboneArgs(c) ==
    LET missing == GemmaFirstMissing(c)
        text_config == c["text_config"]
        vision_config == c["vision_config"]
    IN  IF missing # "" THEN Raised(KeyError(missing)) ELSE
        [vocabulary_size |-> c["image_token_index"],
         image_size |-> image_size(vision_config),
         num_layers |-> text_config["num_hidden_layers"],
         num_query_heads |-> text_config["num_attention_heads"],
         num_key_value_heads |-> text_config["num_key_value_heads"],
         hidden_dim |-> text_config["hidden_size"],
         intermediate_dim |-> intermediate_dim(text_config),
         head_dim |-> text_config["num_image_tokens"],
         vit_patch_size |-> vision_config["patch_size"],
         vit_num_heads |-> vision_config["num_attention_heads"],
         vit_hidden_dim |-> vision_config["hidden_size"],
         vit_num_layers |-> vision_config["num_hidden_layers"],
         vit_intermediate_dim |-> vision_config["intermediate_size"]]

----------------------------------------------------------------------------
(* Port entries: (keras_variable, hf_weight_key, hook_fn).                 *)
(* A hook is the sequence of array operations its lambda applies.          *)

Param(owner, layer, name) == [owner |-> owner, layer |-> layer, name |-> name]
Key(layer, name) == [layer |-> layer, name |-> name]
Entry(p, k, h) == [param |-> p, key |-> k, hook |-> h]

NoHook == <<>>
OpSlice(axis, lo, hi) == [op |-> "slice", axis |-> axis, lo |-> lo, hi |-> hi]
OpReshape(perm) == [op |-> "reshape", perm |-> perm]
OpTranspose(axes) == [op |-> "transpose", axes |-> axes]
OpHead == [op |-> "head"]

\* hook_fn=lambda hf_tensor, keras_shape: np.reshape(hf_tensor, keras_shape)
ReshapeHook == <<OpReshape(<<>>)>>

\* hf_tensor[:, :768] and hf_tensor[:768]
QuerySlice(axis) == OpSlice(axis, 0, QKV_SPLIT_1)
\* hf_tensor[:, 768:1536] and hf_tensor[768:1536]
KeySlice(axis) == OpSlice(axis, QKV_SPLIT_1, QKV_SPLIT_2)
\* hf_tensor[:, 1536:] and hf_tensor[1536:]
ValueSlice(axis) == OpSlice(axis, QKV_SPLIT_2, End)

\* The body of the loop over range(backbone.num_layers) in convert_weights.
GPT2LayerEntries(index) ==
    LET P(name) == Param("transformer_layers", index, name)
        K(name) == Key(index, name)
    IN  << Entry(P("_self_attention_layer_norm.gamma"), K("h.{index}.ln_1.weight"), NoHook),
           Entry(P("_self_attention_layer_norm.beta"), K("h.{index}.ln_1.bias"), NoHook),
           Entry(P("_feedforward_layer_norm.gamma"), K("h.{index}.ln_2.weight"), NoHook),
           Entry(P("_feedforward_layer_norm.beta"), K("h.{index}.ln_2.bias"), NoHook),
           Entry(P("_self_attention_layer.query_dense.kernel"),
                 K("h.{index}.attn.c_attn.weight"), <<QuerySlice(1), OpReshape(<<>>)>>),
           Entry(P("_self_attention_layer.query_dense.bias"),
                 K("h.{index}.attn.c_attn.bias"), <<QuerySlice(0), OpReshape(<<>>)>>),
           Entry(P("_self_attention_layer.key_dense.kernel"),
                 K("h.{index}.attn.c_attn.weight"), <<KeySlice(1), OpReshape(<<>>)>>),
           Entry(P("_self_attention_layer.key_dense.bias"),
                 K("h.{index}.attn.c_attn.bias"), <<KeySlice(0), OpReshape(<<>>)>>),
           Entry(P("_self_attention_layer.value_dense.kernel"),
                 K("h.{index}.attn.c_attn.weight"), <<ValueSlice(1), OpReshape(<<>>)>>),
           Entry(P("_self_attention_layer.value_dense.bias"),
                 K("h.{index}.attn.c_attn.bias"), <<ValueSlice(0), OpReshape(<<>>)>>),
           Entry(P("_self_attention_layer.output_dense.kernel"),
                 K("h.{index}.attn.c_proj.weight"), ReshapeHook),
           Entry(P("_self_attention_layer.output_dense.bias"),
                 K("h.{index}.attn.c_proj.bias"), NoHook),
           Entry(P("_feedforward_intermediate_dense.kernel"),
                 K("h.{index}.mlp.c_fc.weight"), ReshapeHook),
           Entry(P("_feedforward_intermediate_dense.bias"),
                 K("h.{index}.mlp.c_fc.bias"), NoHook),
           Entry(P("_feedforward_output_dense.kernel"),
                 K("h.{index}.mlp.c_proj.weight"), ReshapeHook),
           Entry(P("_feedforward_output_dense.bias"),
                 K("h.{index}.mlp.c_proj.bias"), NoHook) >>

\* for index in range(n): the loop body's entries for 0, ..., n - 1 in order.
RECURSIVE GPT2Layers(_)
GPT2Layers(n) ==
    IF n = 0 THEN <<>> ELSE GPT2Layers(n - 1) \o GPT2LayerEntries(n - 1)

\* convert_weights(backbone, loader): every port_weight call, in order.
GPT2Entries(num_layers) ==
    << Entry(Param("backbone", NoLayer, "token_embedding.embeddings"),
             Key(NoLayer, "wte.weight"), NoHook),
       Entry(Param("backbone", NoLayer, "position_embedding.position_embeddings"),
             Key(NoLayer, "wpe.weight"), NoHook) >>
    \o GPT2Layers(num_layers)
    \o << Entry(Param("backbone", NoLayer, "layer_norm.gamma"),
                Key(NoLayer, "ln_f.weight"), NoHook),
          Entry(Param("backbone", NoLayer, "layer_norm.beta"),
                Key(NoLayer, "ln_f.bias"), NoHook) >>

----------------------------------------------------------------------------
(* PaliGemma port entries *)

PatchEmbeddingAxes_Wrong == <<3, 2, 1, 0>>

\* np.transpose(hf_tensor, axes=(2, 3, 1, 0))
PatchEmbeddingAxes == <<2, 3, 1, 0>>
\* np.transpose(hf_tensor, axes=(1, 0))
KernelAxes == <<1, 0>>
KernelHook == <<OpTranspose(KernelAxes)>>
\* np.transpose(np.reshape(hf_tensor, (keras_shape[0], keras_shape[2],
\* keras_shape[1])), axes=(0, 2, 1))
QKVProjHook == <<OpReshape(<<0, 2, 1>>), OpTranspose(<<0, 2, 1>>)>>
\* np.transpose(np.reshape(hf_tensor, (keras_shape[2], keras_shape[0],
\* keras_shape[1])), axes=(1, 2, 0))
OutProjHook == <<OpReshape(<<2, 0, 1>>), OpTranspose(<<1, 2, 0>>)>>

EmbeddingHook_Tail == <<OpSlice(0, 1, End)>>

\* hook_fn=lambda hf_tensor, keras_shape: hf_tensor[: keras_shape[0]]
EmbeddingHook == <<OpHead>>

\* Image tower: embedding, positional embedding, normalization.
GemmaImageEntries ==
    LET P(name) == Param("image_encoder", NoLayer, name)
        K(name) == Key(NoLayer, name)
    IN  << Entry(P("vision_embeddings.patch_embedding.bias"),
                 K("vision_tower.vision_model.embeddings.patch_embedding.bias"), NoHook),
           Entry(P("vision_embeddings.patch_embedding.kernel"),
                 K("vision_tower.vision_model.embeddings.patch_embedding.weight"),
                 <<OpTranspose(PatchEmbeddingAxes)>>),
           Entry(P("vision_embeddings.position_embedding.embeddings"),
                 K("vision_tower.vision_model.embeddings.position_embedding.weight"), NoHook),
           Entry(P("encoder_layer_norm.gamma"),
                 K("vision_tower.vision_model.post_layernorm.weight"), NoHook),
           Entry(P("encoder_layer_norm.beta"),
                 K("vision_tower.vision_model.post_layernorm.bias"), NoHook) >>

\* The body of the loop over range(image_encoder.num_layers).
GemmaResBlockEntries(index) ==
    LET P(name) == Param("image_encoder.resblocks", index, name)
        K(name) == Key(index, name)
    IN  << Entry(P("layer_norm_1.beta"),
                 K("vision_tower.vision_model.encoder.layers.{index}.layer_norm1.bias"), NoHook),
           Entry(P("layer_norm_1.gamma"),
                 K("vision_tower.vision_model.encoder.layers.{index}.layer_norm1.weight"), NoHook),
           Entry(P("layer_norm_2.beta"),
                 K("vision_tower.vision_model.encoder.layers.{index}.layer_norm2.bias"), NoHook),
           Entry(P("layer_norm_2.gamma"),
                 K("vision_tower.vision_model.encoder.layers.{index}.layer_norm2.weight"), NoHook),
           Entry(P("mlp_dense_1.kernel"),
                 K("vision_tower.vision_model.encoder.layers.{index}.mlp.fc1.weight"), KernelHook),
           Entry(P("mlp_dense_1.bias"),
                 K("vision_tower.vision_model.encoder.layers.{index}.mlp.fc1.bias"), NoHook),
           Entry(P("mlp_dense_2.kernel"),
                 K("vision_tower.vision_model.encoder.layers.{index}.mlp.fc2.weight"), KernelHook),
           Entry(P("mlp_dense_2.bias"),
                 K("vision_tower.vision_model.encoder.layers.{index}.mlp.fc2.bias"), NoHook),
           Entry(P("attn.key_proj.bias"),
                 K("vision_tower.vision_model.encoder.layers.{index}.self_attn.k_proj.bias"), NoHook),
           Entry(P("attn.key_proj.kernel"),
                 K("vision_tower.vision_model.encoder.layers.{index}.self_attn.k_proj.weight"), KernelHook),
           Entry(P("attn.out_proj.bias"),
                 K("vision_tower.vision_model.encoder.layers.{index}.self_attn.out_proj.bias"), NoHook),
           Entry(P("attn.out_proj.kernel"),
                 K("vision_tower.vision_model.encoder.layers.{index}.self_attn.out_proj.weight"), KernelHook),
           Entry(P("attn.query_proj.bias"),
                 K("vision_tower.vision_model.encoder.layers.{index}.self_attn.q_proj.bias"), NoHook),
           Entry(P("attn.query_proj.kernel"),
                 K("vision_tower.vision_model.encoder.layers.{index}.self_attn.q_proj.weight"), KernelHook),
           Entry(P("attn.value_proj.bias"),
                 K("vision_tower.vision_model.encoder.layers.{index}.self_attn.v_proj.bias"), NoHook),
           Entry(P("attn.value_proj.kernel"),
                 K("vision_tower.vision_model.encoder.layers.{index}.self_attn.v_proj.weight"), KernelHook) >>

RECURSIVE GemmaResBlocks(_)
GemmaResBlocks(n) ==
    IF n = 0 THEN <<>> ELSE GemmaResBlocks(n - 1) \o GemmaResBlockEntries(n - 1)

\* Multi modal projection.
GemmaProjectorEntries ==
    << Entry(Param("image_classifier", NoLayer, "kernel"),
             Key(NoLayer, "multi_modal_projector.linear.weight"), KernelHook),
       Entry(Param("image_classifier", NoLayer, "bias"),
             Key(NoLayer, "multi_modal_projector.linear.bias"), NoHook) >>

\* The body of the loop over range(backbone.num_layers).
GemmaDecoderEntries(index) ==
    LET P(name) == Param("transformer_layers", index, name)
        K(name) == Key(index, name)
    IN  << Entry(P("pre_attention_norm.scale"),
                 K("language_model.model.layers.{index}.input_layernorm.weight"), NoHook),
           Entry(P("pre_ffw_norm.scale"),
                 K("language_model.model.layers.{index}.post_attention_layernorm.weight"), NoHook),
           Entry(P("attention.query_dense.kernel"),
                 K("language_model.model.layers.{index}.self_attn.q_proj.weight"), QKVProjHook),
           Entry(P("attention.key_dense.kernel"),
                 K("language_model.model.layers.{index}.self_attn.k_proj.weight"), QKVProjHook),
           Entry(P("attention.value_dense.kernel"),
                 K("language_model.model.layers.{index}.self_attn.v_proj.weight"), QKVProjHook),
           Entry(P("attention.output_dense.kernel"),
                 K("language_model.model.layers.{index}.self_attn.o_proj.weight"), OutProjHook),
           Entry(P("gating_ffw.variables[0]"),
                 K("language_model.model.layers.{index}.mlp.gate_proj.weight"), KernelHook),
           Entry(P("gating_ffw_2.variables[0]"),
                 K("language_model.model.layers.{index}.mlp.up_proj.weight"), KernelHook),
           Entry(P("ffw_linear.variables[0]"),
                 K("language_model.model.layers.{index}.mlp.down_proj.weight"), KernelHook) >>

RECURSIVE GemmaDecoders(_)
GemmaDecoders(n) ==
    IF n = 0 THEN <<>> ELSE GemmaDecoders(n - 1) \o GemmaDecoderEntries(n - 1)

GemmaTailEntries_CopyPaste ==
    << Entry(Param("backbone", NoLayer, "layer_norm.scale"),
             Key(NoLayer, "language_model.model.norm.weight"), NoHook),
       Entry(Param("backbone", NoLayer, "layer_norm.scale"),
             Key(NoLayer, "language_model.model.embed_tokens.weight"), EmbeddingHook) >>

\* Language tower tail: normalization, embedding.
GemmaTailEntries ==
    << Entry(Param("backbone", NoLayer, "layer_norm.scale"),
             Key(NoLayer, "language_model.model.norm.weight"), NoHook),
       Entry(Param("backbone", NoLayer, "token_embedding.embeddings"),
             Key(NoLayer, "language_model.model.embed_tokens.weight"), EmbeddingHook) >>

\* load_gemma_backbone: every port_weight call, in order.
GemmaEntries(vit_num_layers, num_layers) ==
    GemmaImageEntries \o GemmaResBlocks(vit_num_layers) \o GemmaProjectorEntries
    \o GemmaDecoders(num_layers) \o GemmaTailEntries

----------------------------------------------------------------------------
(* Declared parameters of the constructed models *)

GPT2LayerParamNames ==
    {"_self_attention_layer_norm.gamma", "_self_attention_layer_norm.beta",
     "_feedforward_layer_norm.gamma", "_feedforward_layer_norm.beta",
     "_self_attention_layer.query_dense.kernel", "_self_attention_layer.query_dense.bias",
     "_self_attention_layer.key_dense.kernel", "_self_attention_layer.key_dense.bias",
     "_self_attention_layer.value_dense.kernel", "_self_attention_layer.value_dense.bias",
     "_self_attention_layer.output_dense.kernel", "_self_attention_layer.output_dense.bias",
     "_feedforward_intermediate_dense.kernel", "_feedforward_intermediate_dense.bias",
     "_feedforward_output_dense.kernel", "_feedforward_output_dense.bias"}

\* Token and position embeddings, 16 parameters per layer, final layer norm.
GPT2Params(num_layers) ==
    {Param("backbone", NoLayer, n) :
        n \in {"token_embedding.embeddings", "position_embedding.position_embeddings",
               "layer_norm.gamma", "layer_norm.beta"}}
    \cup {Param("transformer_layers", i, n) :
            i \in 0..(num_layers - 1), n \in GPT2LayerParamNames}

GemmaResBlockParamNames ==
    {"layer_norm_1.beta", "layer_norm_1.gamma", "layer_norm_2.beta", "layer_norm_2.gamma",
     "mlp_dense_1.kernel", "mlp_dense_1.bias", "mlp_dense_2.kernel", "mlp_dense_2.bias",
     "attn.key_proj.bias", "attn.key_proj.kernel", "attn.out_proj.bias",
     "attn.out_proj.kernel", "attn.query_proj.bias", "attn.query_proj.kernel",
     "attn.value_proj.bias", "attn.value_proj.kernel"}

GemmaDecoderParamNames ==
    {"pre_attention_norm.scale", "pre_ffw_norm.scale", "attention.query_dense.kernel",
     "attention.key_dense.kernel", "attention.value_dense.kernel",
     "attention.output_dense.kernel", "gating_ffw.variables[0]",
     "gating_ffw_2.variables[0]", "ffw_linear.variables[0]"}

\* Image tower: 5 embedding/norm parameters, 16 per vision layer, 2 projector
\* parameters; language tower: 9 per text layer, final norm scale, token embedding.
GemmaParams(vit_num_layers, num_layers) ==
    {Param("image_encoder", NoLayer, n) :
        n \in {"vision_embeddings.patch_embedding.bias",
               "vision_embeddings.patch_embedding.kernel",
               "vision_embeddings.position_embedding.embeddings",
               "encoder_layer_norm.gamma", "encoder_layer_norm.beta"}}
    \cup {Param("image_encoder.resblocks", i, n) :
            i \in 0..(vit_num_layers - 1), n \in GemmaResBlockParamNames}
    \cup {Param("image_classifier", NoLayer, n) : n \in {"kernel", "bias"}}
    \cup {Param("transformer_layers", i, n) :
            i \in 0..(num_layers - 1), n \in GemmaDecoderParamNames}
    \cup {Param("backbone", NoLayer, n) :
            n \in {"layer_norm.scale", "token_embedding.embeddings"}}

----------------------------------------------------------------------------
(* Arrays: [shape, data], data in row-major (C) order; indices are 0-based *)
(* tuples as in the source.                                                *)

IsArray(x) == "shape" \in DOMAIN x

\* Product of shape[k..Len(shape)].
RECURSIVE ProdFrom(_, _)
ProdFrom(shape, k) ==
    IF k > Len(shape) THEN 1 ELSE shape[k] * ProdFrom(shape, k + 1)

Size(shape) == ProdFrom(shape, 1)

\* The multi-index of flat position p (0-based) in an array of this shape.
Unravel(shape, p) ==
    [k \in 1..Len(shape) |-> (p \div ProdFrom(shape, k + 1)) % shape[k]]

RECURSIVE RavelFrom(_, _, _)
RavelFrom(shape, idx, k) ==
    IF k > Len(shape) THEN 0
    ELSE idx[k] * ProdFrom(shape, k + 1) + RavelFrom(shape, idx, k + 1)

\* The flat position (0-based) of multi-index idx.
Ravel(shape, idx) == RavelFrom(shape, idx, 1)

\* a[idx]
At(a, idx) == a.data[Ravel(a.shape, idx) + 1]

Indices(shape) == {Unravel(shape, p) : p \in 0..(Size(shape) - 1)}

\* Bounds of a[lo:hi] on an axis of n entries (lo, hi >= 0, or hi omitted).
SliceStart(n, lo) == Min(lo, n)
SliceStop(n, hi) == IF hi = End THEN n ELSE Min(hi, n)
SliceWidth(n, lo, hi) == Max(0, SliceStop(n, hi) - SliceStart(n, lo))

SliceShape(shape, axis, lo, hi) ==
    [shape EXCEPT ![axis + 1] = SliceWidth(shape[axis + 1], lo, hi)]

\* a[..., lo:hi, ...] on the given axis.
SliceAxis(a, axis, lo, hi) ==
    LET ns == SliceShape(a.shape, axis, lo, hi)
        start == SliceStart(a.shape[axis + 1], lo)
    IN  [shape |-> ns,
         data |-> [p \in 1..Size(ns) |->
                     LET j == Unravel(ns, p - 1)
                     IN  At(a, [j EXCEPT ![axis + 1] = j[axis + 1] + start])]]

TransposeShape(shape, axes) == [k \in 1..Len(axes) |-> shape[axes[k] + 1]]

\* np.transpose(a, axes): out[j] = a[i] where i[axes[k]] = j[k].
Transpose(a, axes) ==
    LET n == Len(a.shape)
        ns == TransposeShape(a.shape, axes)
    IN  [shape |-> ns,
         data |-> [p \in 1..Size(ns) |->
                     LET j == Unravel(ns, p - 1)
                         i == [m \in 1..n |-> j[CHOOSE k \in 1..n : axes[k] + 1 = m]]
                     IN  At(a, i)]]

\* The shape an "np.reshape" op asks for: keras_shape, or keras_shape permuted.
ReshapeTarget(perm, ks) ==
    IF perm = <<>> THEN ks ELSE [k \in 1..Len(perm) |-> ks[perm[k] + 1]]

\* np.reshape(a, target): the same data in C order; ValueError on a size mismatch.
Reshape(a, target) ==
    IF Size(target) # Size(a.shape) THEN Raised(ValueError)
    ELSE [shape |-> target, data |-> a.data]

\* One operation of a hook on array a with the target parameter's shape ks.
ApplyOp(o, a, ks) ==
    CASE o.op = "slice" -> SliceAxis(a, o.axis, o.lo, o.hi)
      [] o.op = "reshape" -> Reshape(a, ReshapeTarget(o.perm, ks))
      [] o.op = "transpose" -> Transpose(a, o.axes)
      [] o.op = "head" -> SliceAxis(a, 0, 0, ks[1])

\* hook_fn(hf_tensor, keras_shape); the tensor itself when there is no hook.
RECURSIVE ApplyHook(_, _, _)
ApplyHook(hook, a, ks) ==
    IF hook = <<>> \/ ~IsArray(a) THEN a
    ELSE ApplyHook(Tail(hook), ApplyOp(Head(hook), a, ks), ks)

\* No shape: np.reshape raised ValueError.
ShapeError == <<0 - 1>>

\* The shape of ApplyOp's result, or ShapeError.
OpShape(o, shape, ks) ==
    CASE o.op = "slice" -> SliceShape(shape, o.axis, o.lo, o.hi)
      [] o.op = "reshape" ->
            IF Size(ReshapeTarget(o.perm, ks)) # Size(shape) THEN ShapeError
            ELSE ReshapeTarget(o.perm, ks)
      [] o.op = "transpose" -> TransposeShape(shape, o.axes)
      [] o.op = "head" -> SliceShape(shape, 0, 0, ks[1])

\* The shape of hook_fn's result on a tensor of this shape, or ShapeError.
RECURSIVE HookShape(_, _, _)
HookShape(hook, shape, ks) ==
    IF hook = <<>> \/ shape = ShapeError THEN shape
    ELSE HookShape(Tail(hook), OpShape(Head(hook), shape, ks), ks)

----------------------------------------------------------------------------
(* Inputs of a conversion run *)

\* Mapping c without the keys in `missing`.
Without(c, missing) == [k \in DOMAIN c \ missing |-> c[k]]

\* c extended with key k.
With(c, k, v) == [x \in DOMAIN c \cup {k} |-> IF x = k THEN v ELSE c[x]]

SmallSubsets(S) == {m \in SUBSET S : Cardinality(m) <= MaxMissing}

\* Hub configs of GPT-2: the base and medium widths, any bounded depth.
GPT2FullConfigs ==
    {[vocab_size |-> 50257, n_layer |-> l, n_head |-> w.n_head, n_embd |-> w.n_embd,
      n_ctx |-> x, resid_pdrop |-> 1, n_positions |-> 1024] :
        l \in 0..MaxLayers,
        w \in {[n_embd |-> QKV_SPLIT_1, n_head |-> 12], [n_embd |-> 1024, n_head |-> 16]},
        x \in {1024, 2048}}

GPT2Configs ==
    {Without(c, m) : c \in GPT2FullConfigs, m \in SmallSubsets(Range(GPT2_CONFIG_KEYS))}

GemmaTextConfigs ==
    {[num_hidden_layers |-> l, num_attention_heads |-> 8, num_key_value_heads |-> 1,
      hidden_size |-> 2048, intermediate_size |-> x, num_image_tokens |-> 256] :
        l \in 0..MaxLayers, x \in {8192, 16384}}

GemmaVisionConfigs ==
    LET base == {[patch_size |-> 14, num_attention_heads |-> 16, hidden_size |-> 1152,
                  num_hidden_layers |-> l, intermediate_size |-> 4304] :
                    l \in 0..MaxLayers}
    IN  base \cup {With(v, "image_size", s) :
                     v \in base, s \in {DEFAULT_IMAGE_SIZE, 2 * DEFAULT_IMAGE_SIZE}}

\* Hub configs of PaliGemma, each with at most MaxMissing keys removed
\* (from the top level, from text_config or from vision_config).
GemmaConfigs ==
    LET Full(t, v) == [text_config |-> t, vision_config |-> v,
                       image_token_index |-> 257152]
    IN  {Without(Full(t, v), m) :
            t \in GemmaTextConfigs, v \in GemmaVisionConfigs,
            m \in SmallSubsets({"text_config", "vision_config", "image_token_index"})}
        \cup {Full(Without(t, m), v) :
                t \in GemmaTextConfigs, v \in GemmaVisionConfigs,
                m \in SmallSubsets(Range(GEMMA_TEXT_KEYS)) \ {{}}}
        \cup {Full(t, Without(v, m)) :
                t \in GemmaTextConfigs, v \in GemmaVisionConfigs,
                m \in SmallSubsets(Range(GEMMA_VISION_KEYS)) \ {{}}}

KeysOf(entries) == {e.key : e \in Range(entries)}

\* The shard file a tensor is stored in.
ShardOf(k) ==
    IF k.layer = NoLayer THEN "model-00001-of-00002.safetensors"
    ELSE "model-00002-of-00002.safetensors"

\* Checkpoint stores for a model with these port entries: fully populated,
\* or with one key absent.
Stores(entries) ==
    LET full == KeysOf(entries)
    IN  {[k \in full \ m |-> ShardOf(k)] : m \in {{}} \cup {{k} : k \in full}}

\* The port entries of the running conversion.
Entries ==
    IF entry = "load_gemma_backbone"
    THEN GemmaEntries(backbone.vit_num_layers, backbone.num_layers)
    ELSE GPT2Entries(backbone.num_layers)

----------------------------------------------------------------------------
(* A conversion run *)

NoCounts == [p \in {} |-> 0]
NoStore == [k \in {} |-> ""]

HookIdle ==
    /\ hf_tensor = None
    /\ keras_shape = <<>>
    /\ hook_key = ""
    /\ hooks = <<>>
    /\ ported = <<>>

\* A call of load_gpt2_backbone or load_gemma_backbone about to start.
InitLoader ==
    /\ entry \in {"load_gpt2_backbone", "load_gemma_backbone"}
    /\ load_weights \in BOOLEAN
    /\ transformers_config \in
         IF entry = "load_gpt2_backbone" THEN GPT2Configs ELSE GemmaConfigs
    /\ loaded_config = None
    /\ keras_config = None
    /\ backbone = None
    /\ pc = "load_config"
    /\ error = NoError
    /\ store = NoStore
    /\ store_open = FALSE
    /\ files_fetched = {}
    /\ store_reads = 0
    /\ cleanups = 0
    /\ assigned = NoCounts
    /\ next_entry = 1

\* A call of convert_weights(backbone, loader) about to start, on a constructed
\* GPT-2 backbone and an opened loader.
InitConvertWeights ==
    /\ entry = "convert_weights"
    /\ load_weights = TRUE
    /\ transformers_config = None
    /\ loaded_config = None
    /\ keras_config = None
    /\ backbone \in {convert_backbone_config(c) : c \in GPT2FullConfigs}
    /\ pc = "port"
    /\ error = NoError
    /\ store \in Stores(GPT2Entries(backbone.num_layers))
    /\ store_open = TRUE
    /\ files_fetched = {}
    /\ store_reads = 0
    /\ cleanups = 0
    /\ assigned = [p \in GPT2Params(backbone.num_layers) |-> 0]
    /\ next_entry = 1

Init == (InitLoader \/ InitConvertWeights) /\ HookIdle

\* transformers_config = load_config(preset, HF_CONFIG_FILE)
LoadConfig ==
    /\ pc = "load_config"
    /\ loaded_config' = transformers_config
    /\ pc' = "translate"
    /\ UNCHANGED hookVars
    /\ UNCHANGED <<entry, load_weights, transformers_config, keras_config, backbone,
                   error, store, store_open, files_fetched, store_reads, cleanups,
                   assigned, next_entry>>

\* keras_config = convert_backbone_config(transformers_config)
Gpt2ConvertConfig ==
    /\ pc = "translate"
    /\ entry = "load_gpt2_backbone"
    /\ LET r == convert_backbone_config(loaded_config)
       IN  IF IsRaised(r)
           THEN /\ error' = r.raised
                /\ pc' = "done"
                /\ UNCHANGED keras_config
           ELSE /\ keras_config' = r
                /\ pc' = "construct"
                /\ UNCHANGED error
    /\ UNCHANGED hookVars
    /\ UNCHANGED <<entry, load_weights, transformers_config, loaded_config, backbone,
                   store, store_open, files_fetched, store_reads, cleanups,
                   assigned, next_entry>>

\* The lookups of text_config, vision_config and of every keyword argument
\* of cls(...), evaluated before the constructor is called.
GemmaReadConfig ==
    /\ pc = "translate"
    /\ entry = "load_gemma_backbone"
    /\ LET r == GemmaBackboneArgs(loaded_config)
       IN  IF IsRaised(r)
           THEN /\ error' = r.raised
                /\ pc' = "done"
                /\ UNCHANGED keras_config
           ELSE /\ keras_config' = r
                /\ pc' = "construct"
                /\ UNCHANGED error
    /\ UNCHANGED hookVars
    /\ UNCHANGED <<entry, load_weights, transformers_config, loaded_config, backbone,
                   store, store_open, files_fetched, store_reads, cleanups,
                   assigned, next_entry>>

\* The parameters the constructed model declares, none assigned yet.
DeclaredParams(loader, args) ==
    IF loader = "load_gemma_backbone"
    THEN GemmaParams(args.vit_num_layers, args.num_layers)
    ELSE GPT2Params(args.num_layers)

SkipsWeights_Never(loader, lw) == FALSE

\* GPT-2: "if load_weights:" not taken; PaliGemma: "if not load_weights:
\* return backbone".
SkipsWeights(loader, lw) == ~lw

\* backbone = cls(**keras_config) / backbone = cls(...), then the branch on
\* load_weights.
Construct ==
    /\ pc = "construct"
    /\ backbone' = keras_config
    /\ assigned' = [p \in DeclaredParams(entry, keras_config) |-> 0]
    /\ pc' = IF SkipsWeights(entry, load_weights) THEN "done" ELSE "cleanup"
    /\ UNCHANGED hookVars
    /\ UNCHANGED <<entry, load_weights, transformers_config, loaded_config,
                   keras_config, error, store, store_open, files_fetched,
                   store_reads, cleanups, next_entry>>

\* jax_memory_cleanup(backbone)
MemoryCleanup ==
    /\ pc = "cleanup"
    /\ cleanups' = cleanups + 1
    /\ pc' = "open_store"
    /\ UNCHANGED hookVars
    /\ UNCHANGED <<entry, load_weights, transformers_config, loaded_config,
                   keras_config, backbone, error, store, store_open, files_fetched,
                   store_reads, assigned, next_entry>>

\* with SafetensorLoader(preset, hf_key_prefix) as loader:
Gpt2OpenLoader ==
    /\ pc = "open_store"
    /\ entry = "load_gpt2_backbone"
    /\ store' \in Stores(GPT2Entries(backbone.num_layers))
    /\ store_open' = TRUE
    /\ pc' = "call_convert_weights"
    /\ UNCHANGED hookVars
    /\ UNCHANGED <<entry, load_weights, transformers_config, loaded_config,
                   keras_config, backbone, error, files_fetched, store_reads,
                   cleanups, assigned, next_entry>>

\* convert_weights(backbone, loader, transformers_config): the call binds its
\* arguments to the parameters of "def convert_weights(backbone, loader)";
\* leaving the with block closes the loader.
Gpt2CallConvertWeights ==
    /\ pc = "call_convert_weights"
    /\ IF CONVERT_WEIGHTS_ARGS # CONVERT_WEIGHTS_PARAMS
       THEN /\ error' = TypeError
            /\ pc' = "done"
            /\ store_open' = FALSE
       ELSE /\ pc' = "port"
            /\ UNCHANGED <<error, store_open>>
    /\ UNCHANGED hookVars
    /\ UNCHANGED <<entry, load_weights, transformers_config, loaded_config,
                   keras_config, backbone, store, files_fetched, store_reads,
                   cleanups, assigned, next_entry>>

\* safetensor_config = load_config(preset, SAFETENSOR_CONFIG_FILE)
GemmaLoadIndex ==
    /\ pc = "open_store"
    /\ entry = "load_gemma_backbone"
    /\ store' \in Stores(GemmaEntries(backbone.vit_num_layers, backbone.num_layers))
    /\ store_open' = TRUE
    /\ pc' = "fetch_files"
    /\ UNCHANGED hookVars
    /\ UNCHANGED <<entry, load_weights, transformers_config, loaded_config,
                   keras_config, backbone, error, files_fetched, store_reads,
                   cleanups, assigned, next_entry>>

\* safetensor_files = {fname: get_file(preset, fname)
\*                     for fname in set(safetensor_config["weight_map"].values())}
GemmaFetchFiles ==
    /\ pc = "fetch_files"
    /\ files_fetched' = {store[k] : k \in DOMAIN store}
    /\ pc' = "port"
    /\ UNCHANGED hookVars
    /\ UNCHANGED <<entry, load_weights, transformers_config, loaded_config,
                   keras_config, backbone, error, store, store_open, store_reads,
                   cleanups, assigned, next_entry>>

\* Shapes of a fused c_attn tensor and of the query/key/value parameter it
\* fills, in a checkpoint that matches the model: <<source shape, keras shape>>.
FusedShapes(e, bb) ==
    LET W == bb.hidden_dim
        heads == bb.num_heads
    IN  IF e.hook[1].axis = 1
        THEN <<(<<W, 3 * W>>), (<<W, heads, W \div heads>>)>>
        ELSE <<(<<3 * W>>), (<<heads, W \div heads>>)>>

\* Whether the entry's hook raises on the checkpoint's tensor: the slicing
\* hooks reshape a slice of fixed offsets to the parameter's shape.
HookRaises(e, bb) ==
    /\ e.hook # <<>>
    /\ Head(e.hook).op = "slice"
    /\ HookShape(e.hook, FusedShapes(e, bb)[1], FusedShapes(e, bb)[2]) = ShapeError

\* port_weight(keras_variable, hf_weight_key, hook_fn): resolve the key in the
\* store, read the tensor, apply the hook, assign the parameter.
port_weight(e) ==
    IF e.key \notin DOMAIN store
    THEN /\ error' = KeyError(e.key.name)
         /\ UNCHANGED <<store_reads, assigned>>
    ELSE /\ store_reads' = store_reads + 1
         /\ IF HookRaises(e, backbone)
            THEN /\ error' = ValueError
                 /\ UNCHANGED assigned
            ELSE /\ error' = NoError
                 /\ assigned' = [assigned EXCEPT ![e.param] = @ + 1]

NextPosition_Continue(raised, i) == [pc |-> "port", next_entry |-> i + 1]

\* The port_weight calls are consecutive statements with no try/except around
\* them: an exception leaves the function, a normal return goes on to the next.
NextPosition(raised, i) ==
    IF raised THEN [pc |-> "done", next_entry |-> i]
    ELSE [pc |-> "port", next_entry |-> i + 1]

\* The next port_weight call of convert_weights / load_gemma_backbone.
PortNext ==
    /\ pc = "port"
    /\ next_entry <= Len(Entries)
    /\ LET e == Entries[next_entry]
       IN  /\ IF e.param \notin DOMAIN assigned
              THEN /\ error' = AttributeError
                   /\ UNCHANGED <<store_reads, assigned>>
              ELSE port_weight(e)
           /\ pc' = NextPosition(error' # NoError, next_entry).pc
           /\ next_entry' = NextPosition(error' # NoError, next_entry).next_entry
    /\ UNCHANGED hookVars
    /\ UNCHANGED <<entry, load_weights, transformers_config, loaded_config,
                   keras_config, backbone, store, store_open, files_fetched,
                   cleanups>>

\* return backbone, after the last port_weight call.
PortReturn ==
    /\ pc = "port"
    /\ next_entry > Len(Entries)
    /\ pc' = "done"
    /\ UNCHANGED hookVars
    /\ UNCHANGED <<entry, load_weights, transformers_config, loaded_config,
                   keras_config, backbone, error, store, store_open, files_fetched,
                   store_reads, cleanups, assigned, next_entry>>

Next ==
    \/ LoadConfig
    \/ Gpt2ConvertConfig
    \/ GemmaReadConfig
    \/ Construct
    \/ MemoryCleanup
    \/ Gpt2OpenLoader
    \/ Gpt2CallConvertWeights
    \/ GemmaLoadIndex
    \/ GemmaFetchFiles
    \/ PortNext
    \/ PortReturn

Spec == Init /\ [][Next]_vars

----------------------------------------------------------------------------
(* Porting one tensor: the hooks of the entries that read one key, applied *)
(* to a concrete tensor.                                                   *)

\* An array of the given shape whose entries count 0, 1, ..., m - 1, 0, ...
Pattern(shape, m) ==
    [shape |-> shape, data |-> [p \in 1..Size(shape) |-> (p - 1) % m]]

Patterns(shape) ==
    {Pattern(shape, m) : m \in (1..Min(Size(shape), MaxElems)) \cup {Size(shape)}}

Dims == 1..MaxDim
Divisors(W) == {h \in Dims : W % h = 0}
HookInput(k, t, ks) == [key |-> k, tensor |-> t, ks |-> ks]

\* The fused c_attn tensors of a model with hidden_dim W, and the shape of the
\* query/key/value parameters they fill.
FusedWeightInputs ==
    UNION {{HookInput("h.{index}.attn.c_attn.weight", t, <<W, heads, W \div heads>>) :
              t \in Patterns(<<W, 3 * W>>), heads \in Divisors(W)} : W \in Dims}

FusedBiasInputs ==
    UNION {{HookInput("h.{index}.attn.c_attn.bias", t, <<heads, W \div heads>>) :
              t \in Patterns(<<3 * W>>), heads \in Divisors(W)} :
           W \in Dims \cup {QKV_SPLIT_1}}

\* Patch embedding kernels: (out, in, height, width) in the checkpoint,
\* (height, width, in, out) in the model.
PatchInputs ==
    UNION {{HookInput("vision_tower.vision_model.embeddings.patch_embedding.weight",
                      t, <<s[3], s[4], s[2], s[1]>>) : t \in Patterns(s)} :
           s \in [1..4 -> Dims]}

\* Dense kernels: (out, in) in the checkpoint, (in, out) in the model.
KernelInputs ==
    UNION {{HookInput(k, t, <<s[2], s[1]>>) :
              t \in Patterns(s),
              k \in {"multi_modal_projector.linear.weight",
                     "vision_tower.vision_model.encoder.layers.{index}.mlp.fc1.weight",
                     "language_model.model.layers.{index}.mlp.gate_proj.weight"}} :
           s \in [1..2 -> Dims]}

\* Attention projections of the language tower.
ProjInputs ==
    UNION {{HookInput("language_model.model.layers.{index}.self_attn.q_proj.weight",
                      t, <<d[1], d[3], d[2]>>) : t \in Patterns(<<d[1] * d[2], d[3]>>)}
           \cup
           {HookInput("language_model.model.layers.{index}.self_attn.o_proj.weight",
                      t, <<d[1], d[2], d[3]>>) : t \in Patterns(<<d[3], d[1] * d[2]>>)} :
           d \in [1..3 -> Dims]}

\* Token embedding tables of N rows for a model of target_size rows.
EmbeddingInputs ==
    UNION {{HookInput("language_model.model.embed_tokens.weight", t, <<target_size, s[2]>>) :
              t \in Patterns(s), target_size \in 1..(MaxDim + 1)} :
           s \in (1..(MaxDim + 1)) \X Dims}

HookInputs ==
    FusedWeightInputs \cup FusedBiasInputs \cup PatchInputs \cup KernelInputs
    \cup ProjInputs \cup EmbeddingInputs

\* The port entries of layer 0 (and outside the loops) that read this key.
EntriesReading(k) ==
    SelectSeq(GPT2Entries(1) \o GemmaEntries(1, 1), LAMBDA e : e.key.name = k)

InitHook ==
    /\ \E x \in HookInputs :
          /\ hook_key = x.key
          /\ hf_tensor = x.tensor
          /\ keras_shape = x.ks
          /\ hooks = EntriesReading(x.key)
    /\ ported = <<>>
    /\ entry = "port_weight"
    /\ load_weights = TRUE
    /\ transformers_config = None
    /\ loaded_config = None
    /\ keras_config = None
    /\ backbone = None
    /\ pc = "idle"
    /\ error = NoError
    /\ store = NoStore
    /\ store_open = FALSE
    /\ files_fetched = {}
    /\ store_reads = 0
    /\ cleanups = 0
    /\ assigned = NoCounts
    /\ next_entry = 1

\* The value port_weight assigns for one entry: hook_fn(hf_tensor, keras_shape),
\* which must have the parameter's shape.
PortedValue(e, t, ks) ==
    LET r == ApplyHook(e.hook, t, ks)
    IN  IF IsArray(r) /\ r.shape # ks THEN Raised(ValueError) ELSE r

\* The next entry reading the tensor is ported; an exception ends the run.
PortTensor ==
    /\ hooks # <<>>
    /\ \A i \in 1..Len(ported) : IsArray(ported[i])
    /\ ported' = Append(ported, PortedValue(Head(hooks), hf_tensor, keras_shape))
    /\ hooks' = Tail(hooks)
    /\ UNCHANGED <<hf_tensor, keras_shape, hook_key>>
    /\ UNCHANGED runVars

NextHook == PortTensor

SpecHook == InitHook /\ [][NextHook]_vars

----------------------------------------------------------------------------
(* Properties of a conversion run (specification Spec)                     *)

Gpt2Run == entry = "load_gpt2_backbone"
GemmaRun == entry = "load_gemma_backbone"
Constructed == "num_layers" \in DOMAIN backbone
Translated == "num_layers" \in DOMAIN keras_config

\* The keys a source config lacks among those the loader requires.
Gpt2MissingKeys(c) == Range(GPT2_CONFIG_KEYS) \ DOMAIN c

GemmaMissingKeys(c) ==
    ({"text_config", "vision_config", "image_token_index"} \ DOMAIN c)
    \cup (IF "text_config" \in DOMAIN c
          THEN Range(GEMMA_TEXT_KEYS) \ DOMAIN c["text_config"] ELSE {})
    \cup (IF "vision_config" \in DOMAIN c
          THEN Range(GEMMA_VISION_KEYS) \ DOMAIN c["vision_config"] ELSE {})

MissingKeys ==
    IF Gpt2Run THEN Gpt2MissingKeys(transformers_config)
    ELSE GemmaMissingKeys(transformers_config)

\* The checkpoint store holds every key the model's port entries read.
StoreFull == KeysOf(Entries) \subseteq DOMAIN store

\* C1: a load_gpt2_backbone run with load_weights true, a well-formed config
\* and a fully populated store completes without error, and every declared
\* parameter (token and position embeddings, 16 per layer, final gamma and
\* beta) has then been assigned exactly once.
C1_Gpt2EveryParameterAssignedOnce ==
    (Gpt2Run /\ load_weights /\ pc = "done" /\ Gpt2MissingKeys(transformers_config) = {}
       /\ StoreFull)
    => /\ error = NoError
       /\ DOMAIN assigned = GPT2Params(transformers_config["n_layer"])
       /\ \A p \in DOMAIN assigned : assigned[p] = 1

\* C2: in a load_gemma_backbone run no parameter is ever assigned twice, and a
\* run with load_weights true, a well-formed config and a fully populated
\* store ends without error with each declared parameter of the image tower
\* (5 + 16 per vision layer + 2) and of the language tower (9 per text layer
\* + 2) assigned exactly once, whatever the layer counts.
C2_GemmaEveryParameterAssignedOnce ==
    GemmaRun =>
      /\ \A p \in DOMAIN assigned : assigned[p] <= 1
      /\ (load_weights /\ pc = "done" /\ GemmaMissingKeys(transformers_config) = {}
            /\ StoreFull)
         => /\ error = NoError
            /\ DOMAIN assigned =
                 GemmaParams(transformers_config["vision_config"]["num_hidden_layers"],
                             transformers_config["text_config"]["num_hidden_layers"])
            /\ Cardinality(DOMAIN assigned) =
                 5 + 16 * backbone.vit_num_layers + 2 + 9 * backbone.num_layers + 2
            /\ \A p \in DOMAIN assigned : assigned[p] = 1
            /\ store_reads = Cardinality(DOMAIN assigned)

C2_Witness ==
    /\ GemmaRun /\ load_weights /\ pc = "done" /\ error = NoError
    /\ backbone.vit_num_layers = 2 /\ backbone.num_layers = 1
    /\ \A p \in DOMAIN assigned : assigned[p] = 1
    /\ Cardinality(DOMAIN assigned) = 50

\* C3: in a run of either loader with load_weights false the checkpoint store
\* is never accessed (no tensor read, no index loaded, no shard file fetched),
\* no parameter is assigned, and on a well-formed config the call returns the
\* constructed model.
C3_NoStoreAccessWithoutLoadWeights ==
    ((Gpt2Run \/ GemmaRun) /\ ~load_weights)
    => /\ store_reads = 0
       /\ ~store_open
       /\ store = NoStore
       /\ files_fetched = {}
       /\ \A p \in DOMAIN assigned : assigned[p] = 0
       /\ (pc = "done" /\ MissingKeys = {})
          => (error = NoError /\ Constructed /\ backbone = keras_config)

C3_Witness ==
    /\ GemmaRun /\ ~load_weights /\ pc = "done" /\ error = NoError
    /\ Constructed /\ store_reads = 0 /\ files_fetched = {}
    /\ assigned # NoCounts

\* C4: for a GPT-2 source config holding the seven keys read, the translated
\* config has exactly the seven target keys, intermediate_dim = n_ctx * 3, every
\* other value is its source field unchanged, and the source config is not
\* modified.
C4_Gpt2ConfigTranslation ==
    (Gpt2Run /\ pc \notin {"load_config", "translate"}
       /\ Gpt2MissingKeys(transformers_config) = {})
    => /\ Translated
       /\ DOMAIN keras_config =
            {"vocabulary_size", "num_layers", "num_heads", "hidden_dim",
             "intermediate_dim", "dropout", "max_sequence_length"}
       /\ keras_config.intermediate_dim = transformers_config["n_ctx"] * 3
       /\ keras_config.vocabulary_size = transformers_config["vocab_size"]
       /\ keras_config.num_layers = transformers_config["n_layer"]
       /\ keras_config.num_heads = transformers_config["n_head"]
       /\ keras_config.hidden_dim = transformers_config["n_embd"]
       /\ keras_config.dropout = transformers_config["resid_pdrop"]
       /\ keras_config.max_sequence_length = transformers_config["n_positions"]
       /\ loaded_config = transformers_config
       /\ DOMAIN loaded_config = Range(GPT2_CONFIG_KEYS)

C4_Witness ==
    /\ Gpt2Run /\ Translated
    /\ transformers_config["n_ctx"] = 2048
    /\ keras_config.intermediate_dim = 6144
    /\ keras_config.hidden_dim = 1024

\* C5: in load_gemma_backbone the constructor's intermediate_dim is text_config
\* intermediate_size * 2, and its image_size is vision_config image_size when
\* that key is present and 224 when it is absent; the absence of image_size
\* raises nothing.
C5_GemmaConfigTranslation ==
    (GemmaRun /\ pc \notin {"load_config", "translate"}
       /\ GemmaMissingKeys(transformers_config) = {})
    => /\ Translated
       /\ pc = "construct" => error = NoError
       /\ keras_config.intermediate_dim =
            transformers_config["text_config"]["intermediate_size"] * 2
       /\ keras_config.image_size =
            IF "image_size" \in DOMAIN transformers_config["vision_config"]
            THEN transformers_config["vision_config"]["image_size"]
            ELSE 224
       /\ Constructed => backbone = keras_config

C5_Witness ==
    /\ GemmaRun /\ Constructed
    /\ "image_size" \notin DOMAIN transformers_config["vision_config"]
    /\ backbone.image_size = 224
    /\ backbone.intermediate_dim = 32768

\* C8: in both loaders a source config that lacks a required key (any of the
\* seven GPT-2 keys; any PaliGemma key read other than vision_config
\* image_size) makes the call end with a KeyError naming a missing key, before
\* the model is constructed, with no checkpoint-store access and no value
\* substituted for the missing one.
C8_MissingConfigKey ==
    ((Gpt2Run \/ GemmaRun) /\ MissingKeys # {})
    => /\ pc \in {"load_config", "translate", "done"}
       /\ pc = "done" => (error[1] = "KeyError" /\ error[2] \in MissingKeys)
       /\ ~Translated
       /\ ~Constructed
       /\ assigned = NoCounts
       /\ store_reads = 0 /\ ~store_open /\ files_fetched = {} /\ store = NoStore
       /\ cleanups = 0

C8_Witness ==
    /\ GemmaRun /\ load_weights /\ pc = "done"
    /\ MissingKeys = {"intermediate_size"}
    /\ error = KeyError("intermediate_size")

\* C9: the port entries run in order and stop at the first entry whose key is
\* absent from the store: the run ends there with a KeyError for that key and
\* takes no further step; every earlier entry's parameter keeps its single
\* assignment, and the parameters of the failing and of all later entries
\* stay unassigned.
C9_MissingCheckpointKey ==
    (pc \in {"port", "done"} /\ Constructed /\ store_open) =>
    LET es == Entries
        keys == DOMAIN store
    IN  /\ (pc = "port")
           => /\ error = NoError
              /\ \A j \in 1..(next_entry - 1) :
                    es[j].key \in keys /\ assigned[es[j].param] = 1
        /\ (pc = "done" /\ error[1] = "KeyError")
           => /\ next_entry \in 1..Len(es)
              /\ es[next_entry].key \notin keys
              /\ error = KeyError(es[next_entry].key.name)
              /\ \A j \in 1..(next_entry - 1) : assigned[es[j].param] = 1
              /\ \A j \in next_entry..Len(es) : assigned[es[j].param] = 0
              /\ store_reads = next_entry - 1
              /\ ~ENABLED Next

C9_Witness ==
    /\ GemmaRun /\ pc = "done" /\ error[1] = "KeyError" /\ Constructed
    /\ next_entry > 5
    /\ next_entry < Len(Entries)
    /\ assigned[Entries[next_entry - 1].param] = 1
    /\ assigned[Entries[next_entry + 1].param] = 0

\* The stages of a run never overtake one another: nothing is translated
\* before the config is loaded, nothing constructed before it is translated,
\* jax_memory_cleanup runs at most once, after construction and before any
\* store access, and the entries before next_entry have each run once while
\* those from next_entry on have not run.
StagesInOrder ==
    /\ pc = "load_config" => (loaded_config = None /\ ~Translated)
    /\ Translated => loaded_config = transformers_config
    /\ Constructed => (Translated /\ backbone = keras_config)
    /\ ~Constructed =>
          (cleanups = 0 /\ ~store_open /\ store = NoStore /\ files_fetched = {}
             /\ store_reads = 0 /\ assigned = NoCounts /\ next_entry = 1)
    /\ cleanups <= 1
    /\ (store_open \/ store # NoStore \/ files_fetched # {} \/ store_reads > 0)
          => (Constructed /\ cleanups = 1)
    /\ pc \in {"cleanup", "open_store", "fetch_files", "call_convert_weights"}
          => (store_reads = 0 /\ next_entry = 1
                /\ \A p \in DOMAIN assigned : assigned[p] = 0)
    /\ (Constructed /\ pc \in {"port", "done"})
          => LET es == Entries
             IN  /\ next_entry \in 1..(Len(es) + 1)
                 /\ store_reads = next_entry - 1
                 /\ \A j \in 1..Len(es) :
                       assigned[es[j].param] = IF j < next_entry THEN 1 ELSE 0

\* A finished run on a well-formed config and a fully populated store has
\* released accelerator memory once and executed every port entry.
RunCompletes ==
    (pc = "done" /\ MissingKeys = {} /\ StoreFull)
    => /\ error = NoError
       /\ cleanups = 1
       /\ next_entry = Len(Entries) + 1
       /\ store_reads = Len(Entries)

\* C11: in a run of either loader with load_weights true the config is read
\* and translated first, the model constructed next, jax_memory_cleanup runs
\* exactly once after construction and before the first checkpoint read, and
\* the port entries then execute one after another, each once, none before
\* the model exists.
C11_StagesInOrderThroughPorting ==
    ((Gpt2Run \/ GemmaRun) /\ load_weights) => (StagesInOrder /\ RunCompletes)

----------------------------------------------------------------------------
(* Properties of the hooks (specification SpecHook)                        *)

\* np.concatenate((a, b), axis=-1)
ConcatLast(a, b) ==
    LET n == Len(a.shape)
        wa == a.shape[n]
        ns == [a.shape EXCEPT ![n] = wa + b.shape[n]]
    IN  [shape |-> ns,
         data |-> [p \in 1..Size(ns) |->
                     LET j == Unravel(ns, p - 1)
                     IN  IF j[n] < wa THEN At(a, j)
                         ELSE At(b, [j EXCEPT ![n] = j[n] - wa])]]

FusedKeys == {"h.{index}.attn.c_attn.weight", "h.{index}.attn.c_attn.bias"}

\* The slice of the fused tensor that the i-th hook reading it takes.
FusedSlice(i) ==
    ApplyOp(Head(EntriesReading(hook_key)[i].hook), hf_tensor, keras_shape)

\* C6: for a fused c_attn weight or bias of width 3W, W the model's
\* hidden_dim, the query, key and value hooks succeed and take the three
\* consecutive slices of width W along the fused axis, which concatenate, in
\* that order, to the fused tensor.
C6_FusedSplitIntoEqualThirds ==
    (hook_key \in FusedKeys /\ ported # <<>>) =>
    LET n == Len(hf_tensor.shape)
        W == hf_tensor.shape[n] \div 3
    IN  /\ \A i \in 1..Len(ported) :
              /\ IsArray(ported[i])
              /\ FusedSlice(i).shape[n] = W
              /\ ported[i].data = SliceAxis(hf_tensor, n - 1, (i - 1) * W, i * W).data
        /\ ConcatLast(ConcatLast(FusedSlice(1), FusedSlice(2)), FusedSlice(3))
             = hf_tensor

\* C7: when the source embedding table has N rows and the token embedding
\* target_size < N rows, the ported value is the first target_size rows of the
\* table, in order.
C7_VocabularyTruncation ==
    (hook_key = "language_model.model.embed_tokens.weight" /\ Len(ported) = 1
       /\ keras_shape[1] < hf_tensor.shape[1])
    => /\ IsArray(ported[1])
       /\ ported[1].shape = <<keras_shape[1], hf_tensor.shape[2]>>
       /\ \A r \in 0..(keras_shape[1] - 1), c \in 0..(hf_tensor.shape[2] - 1) :
             At(ported[1], <<r, c>>) = At(hf_tensor, <<r, c>>)

C7_Witness ==
    /\ hook_key = "language_model.model.embed_tokens.weight"
    /\ Len(ported) = 1
    /\ IsArray(ported[1])
    /\ hf_tensor.shape = <<3, 2>>
    /\ ported[1].shape = <<2, 2>>
    /\ ported[1].data = <<0, 1, 2, 3>>
    /\ hf_tensor.data = <<0, 1, 2, 3, 4, 5>>

KernelKeys ==
    {"multi_modal_projector.linear.weight",
     "vision_tower.vision_model.encoder.layers.{index}.mlp.fc1.weight",
     "language_model.model.layers.{index}.mlp.gate_proj.weight"}

\* C10: the patch-embedding hook (axes (2, 3, 1, 0)) moves source entry
\* [o, c, h, w] to [h, w, c, o] and is undone by the permutation (3, 2, 0, 1);
\* each 2-D kernel hook (axes (1, 0)) moves entry [r, c] to [c, r] and is undone
\* by applying it again.
C10_TransposesAreInvertible ==
    /\ (hook_key = "vision_tower.vision_model.embeddings.patch_embedding.weight"
          /\ Len(ported) = 1)
       => /\ IsArray(ported[1])
          /\ Transpose(ported[1], <<3, 2, 0, 1>>) = hf_tensor
          /\ Size(ported[1].shape) = Size(hf_tensor.shape)
          /\ \A idx \in Indices(hf_tensor.shape) :
                At(ported[1], <<idx[3], idx[4], idx[2], idx[1]>>) = At(hf_tensor, idx)
    /\ (hook_key \in KernelKeys /\ Len(ported) = 1)
       => /\ IsArray(ported[1])
          /\ ApplyHook(Head(EntriesReading(hook_key)).hook, ported[1], hf_tensor.shape)
               = hf_tensor
          /\ Size(ported[1].shape) = Size(hf_tensor.shape)
          /\ \A idx \in Indices(hf_tensor.shape) :
                At(ported[1], <<idx[2], idx[1]>>) = At(hf_tensor, idx)

C10_Witness ==
    /\ hook_key = "vision_tower.vision_model.embeddings.patch_embedding.weight"
    /\ Len(ported) = 1
    /\ IsArray(ported[1])
    /\ hf_tensor.shape = <<2, 1, 2, 1>>
    /\ hf_tensor.data = <<0, 1, 2, 3>>
    /\ ported[1].shape = <<2, 1, 1, 2>>
    /\ ported[1].data = <<0, 2, 1, 3>>

=============================================================================
